---- MODULE Spec2Model ----
(***************************************************************************)
(* State-machine model of the voice-driven image studio in src/App.tsx.    *)
(*                                                                         *)
(* The component runs on one event loop.  Every action below is one task   *)
(* of that loop: a handler from its entry to its first await (or its end), *)
(* or the resumption of a handler after an await, together with the        *)
(* promise callbacks (microtasks) it leaves behind.  React state is read   *)
(* in two ways, as in the code: a handler wired to the markup reads the    *)
(* state of the latest render; a closure created inside startVoiceSession  *)
(* or handleImageUpload keeps the values of the render that created it.    *)
(***************************************************************************)
EXTENDS Integers, Sequences, FiniteSets, TLC

\* ---------------------------------------------------------------- bounds
MaxStarts == 2      \* sessions started where only the session's life cycle runs
MaxLiveStarts == 1  \* sessions started where messages are delivered too
MaxMsgs == 2        \* inbound messages delivered over all sessions
MaxTime == 2        \* ticks of the device clock
MaxItems == 3       \* artifacts produced (generated, edited or uploaded)
MaxUploads == 1     \* files chosen in the file picker

\* ---------------------------------------------------------------- constants
HistoryCap == 10    \* .slice(0, 10)
SampleWidth == 2    \* bytes per 16-bit PCM sample

IDLE == "IDLE"
GENERATING == "GENERATING"
EDITING == "EDITING"
VOICE_CONNECTING == "VOICE_CONNECTING"
VOICE_ACTIVE == "VOICE_ACTIVE"
AppStatus == {IDLE, GENERATING, EDITING, VOICE_CONNECTING, VOICE_ACTIVE}

\* the null of a ref, of imageState.base64 and of an absent message field
Null == 0

VARIABLES
  status,            \* useState<AppStatus>
  imageState,        \* useState<ImageState>: [base64, history]
  isLiveActive,      \* useState(false)
  aiResponseText,    \* useState(''): Null is the empty string
  audioContextRef,   \* index of the context pair held, or Null
  nextStartTimeRef,  \* playback cursor
  sourcesRef,        \* Set<AudioBufferSourceNode>: indices into srcLog
  sessionRef,        \* index of the session promise held, or Null
  streamRef,         \* index of the MediaStream held, or Null
  starts,            \* one record per startVoiceSession call that passed the guard
  decoding,          \* onmessage handlers suspended in await decodeAudioData
  srcLog,            \* every source.start(...) made, in order
  reqLog,            \* every generateContent request issued, in order
  pending,           \* indices of reqLog still awaiting their response
  acks,              \* every sendToolResponse made, in order
  calls,             \* every function call delivered, indexed by its id
  frames,            \* the sendRealtimeInput calls made: the session, and whether it was stopped
  uploads,           \* FileReaders still loading: the history their closure saw
  nItems,            \* artifacts produced so far
  nMsgs,             \* messages delivered so far
  nUploads,          \* files chosen so far
  now,               \* device clock
  resetSince,        \* an interruption or stop reset the cursor since the last source.start
  last               \* the task that ran last

vars == <<status, imageState, isLiveActive, aiResponseText, audioContextRef,
          nextStartTimeRef, sourcesRef, sessionRef, streamRef, starts, decoding,
          srcLog, reqLog, pending, acks, calls, frames, uploads, nItems, nMsgs,
          nUploads, now, resetSince, last>>

refVars == <<audioContextRef, nextStartTimeRef, sourcesRef, sessionRef, streamRef>>
imageVars == <<imageState, uploads, nItems, nUploads>>
toolVars == <<reqLog, pending, acks, calls, frames>>

\* ---------------------------------------------------------------- helpers
Max(a, b) == IF a >= b THEN a ELSE b

Min(a, b) == IF a <= b THEN a ELSE b

\* Array.prototype.slice(0, n)
Slice(s, n) == SubSeq(s, 1, Min(Len(s), n))

Event(op, who, arg) == [op |-> op, arg |-> arg]

\* the tasks that run stopVoiceSession
StopOps == {"toggleStop", "onerror", "onclose"}

\* 1 when the task before this one ran stopVoiceSession too
Again == IF last.op \in StopOps THEN 1 ELSE 0

\* AudioContext.currentTime of the pair created by start k
CurrentTime(k) == now - starts[k].born

\* ---------------------------------------------------------------- image state
\* history: [newItem, ...prev.history].slice(0, 10)
PushHistory(item, history) == Slice(<<item>> \o history, HistoryCap)

\* the functional updater of generateImage and editImage
SetArtifact(prev, item) == [base64 |-> item, history |-> PushHistory(item, prev.history)]

\* ---------------------------------------------------------------- teardown
\* s.stop() on every source of the set, each inside its own try/catch
StopSources(log, set) ==
  [i \in DOMAIN log |->
     IF i \in set /\ log[i].st = "playing" THEN [log[i] EXCEPT !.st = "stopped"] ELSE log[i]]

\* what stopVoiceSession does to the sessions, streams and contexts it reaches
\* through the three refs
StopDevices(ss) ==
  [k \in DOMAIN ss |->
     [ss[k] EXCEPT
        !.st = IF k = sessionRef /\ @ = "open" THEN "closing" ELSE @,
        !.closeReq = IF k = sessionRef /\ ss[k].st = "connecting" THEN TRUE ELSE @,
        !.stopped = IF k = sessionRef THEN TRUE ELSE @,
        !.track = IF k = streamRef THEN FALSE ELSE @,
        !.ctx = IF k = audioContextRef /\ @ = "running" THEN "closed" ELSE @]]

\* stopVoiceSession without step 4's reset of the cursor
stopKeepsCursor(ss) ==
  /\ starts' = StopDevices(ss)
  /\ sessionRef' = Null
  /\ streamRef' = Null
  /\ audioContextRef' = Null
  /\ srcLog' = StopSources(srcLog, sourcesRef)
  /\ sourcesRef' = {}
  /\ nextStartTimeRef' = nextStartTimeRef
  /\ resetSince' = TRUE
  /\ isLiveActive' = FALSE
  /\ status' = IDLE
  /\ aiResponseText' = Null

\* the body of stopVoiceSession; ss is the device world its caller leaves
stopVoiceSession(ss) ==
  /\ starts' = StopDevices(ss)
  /\ sessionRef' = Null
  /\ streamRef' = Null
  /\ audioContextRef' = Null
  /\ srcLog' = StopSources(srcLog, sourcesRef)
  /\ sourcesRef' = {}
  /\ nextStartTimeRef' = 0
  /\ resetSince' = TRUE
  /\ isLiveActive' = FALSE
  /\ status' = IDLE
  /\ aiResponseText' = Null

\* the platform calls of stopVoiceSession that may be made to throw, one per step:
\* s.close(), t.stop(), input.close() / output.close(), s.stop()
Faults == {"close", "track", "context", "source"}

\* what stopVoiceSession reaches when the call named by fault throws: s.close(),
\* source.stop() and the contexts' close() are inside try/catch or .catch, so the
\* call that failed has no effect and the rest runs
FaultyDevices(ss, fault) ==
  [k \in DOMAIN ss |->
     [ss[k] EXCEPT
        !.st = IF k = sessionRef /\ @ = "open" /\ fault # "close" THEN "closing" ELSE @,
        !.closeReq = IF k = sessionRef /\ ss[k].st = "connecting" /\ fault # "close"
                       THEN TRUE ELSE @,
        !.stopped = IF k = sessionRef THEN TRUE ELSE @,
        !.track = IF k = streamRef /\ fault # "track" THEN FALSE ELSE @,
        !.ctx = IF k = audioContextRef /\ @ = "running" /\ fault # "context"
                  THEN "closed" ELSE @]]

\* stopVoiceSession with one throwing platform call.  t.stop() is called in a
\* bare forEach (step 2): its exception leaves stopVoiceSession before
\* streamRef is cleared, and steps 3 to 5 do not run
stopVoiceSessionFaulty(ss, fault) ==
  /\ starts' = FaultyDevices(ss, fault)
  /\ sessionRef' = Null
  /\ IF fault = "track" /\ streamRef # Null
       THEN UNCHANGED <<streamRef, audioContextRef, srcLog, sourcesRef, nextStartTimeRef,
                        resetSince, isLiveActive, status, aiResponseText>>
       ELSE /\ streamRef' = Null
            /\ audioContextRef' = Null
            /\ srcLog' = IF fault = "source" THEN srcLog ELSE StopSources(srcLog, sourcesRef)
            /\ sourcesRef' = {}
            /\ nextStartTimeRef' = 0
            /\ resetSince' = TRUE
            /\ isLiveActive' = FALSE
            /\ status' = IDLE
            /\ aiResponseText' = Null

\* ---------------------------------------------------------------- voice session
NewStart ==
  [st |-> "awaitMic", ctx |-> "running", track |-> FALSE, closeReq |-> FALSE,
   wired |-> FALSE, stopped |-> FALSE,
   born |-> now, snapBase64 |-> imageState.base64, snapLive |-> isLiveActive]

\* the toggle button: startVoiceSession up to await getUserMedia; limit bounds the
\* number of sessions started
startVoiceSession(limit) ==
  /\ IF isLiveActive
       THEN /\ stopVoiceSession(starts)
            /\ last' = Event("toggleStop", sessionRef, Again)
       ELSE /\ Len(starts) < limit
            /\ status' = VOICE_CONNECTING
            /\ starts' = Append(starts, NewStart)
            /\ audioContextRef' = Len(starts) + 1
            /\ last' = Event("toggleStart", Len(starts) + 1, Null)
            /\ UNCHANGED <<isLiveActive, aiResponseText, nextStartTimeRef, sourcesRef,
                           sessionRef, streamRef, srcLog, resetSince>>
  /\ UNCHANGED <<imageVars, toolVars, decoding, nMsgs, now>>

\* getUserMedia resolves: the rest of startVoiceSession
getUserMediaResolved(k) ==
  /\ starts[k].st = "awaitMic"
  /\ starts' = [starts EXCEPT ![k].st = "connecting", ![k].track = TRUE]
  /\ streamRef' = k
  /\ sessionRef' = k
  /\ last' = Event("micGranted", k, Null)
  /\ UNCHANGED <<status, isLiveActive, aiResponseText, audioContextRef, nextStartTimeRef,
                 sourcesRef, srcLog, resetSince, imageVars, toolVars, decoding, nMsgs, now>>

\* getUserMedia rejects: startVoiceSession ends at line 167 with a rejected promise
getUserMediaRejected(k) ==
  /\ starts[k].st = "awaitMic"
  /\ starts' = [starts EXCEPT ![k].st = "denied"]
  /\ last' = Event("micDenied", k, Null)
  /\ UNCHANGED <<status, isLiveActive, aiResponseText, refVars, srcLog, resetSince,
                 imageVars, toolVars, decoding, nMsgs, now>>

\* callbacks.onopen; the session promise resolves right after it, and a close
\* that stopVoiceSession chained on the promise then runs.  The processor is
\* wired unless inputCtx is closed (createMediaStreamSource then throws)
onopen(k) ==
  /\ starts[k].st = "connecting"
  /\ isLiveActive' = TRUE
  /\ status' = VOICE_ACTIVE
  /\ starts' = [starts EXCEPT ![k].st = IF starts[k].closeReq THEN "closing" ELSE "open",
                               ![k].wired = (starts[k].ctx = "running")]
  /\ last' = Event("onopen", k, Null)
  /\ UNCHANGED <<aiResponseText, refVars, srcLog, resetSince, imageVars, toolVars,
                 decoding, nMsgs, now>>

\* processor.onaudioprocess of start k, and the callback it chains on the resolved
\* session promise: the processor runs as long as its context does
onaudioprocess(k) ==
  /\ starts[k].wired
  /\ starts[k].ctx = "running"
  /\ sessionRef # Null
  /\ frames' = frames \cup {[sess |-> k, stopped |-> starts[k].stopped]}
  /\ last' = Event("frame", k, Null)
  /\ UNCHANGED <<status, isLiveActive, aiResponseText, refVars, starts, decoding, srcLog,
                 reqLog, pending, acks, calls, imageVars, nMsgs, now, resetSince>>

\* callbacks.onerror (a failed connect, or an error of an open session)
onerror(k) ==
  /\ starts[k].st \in {"connecting", "open", "closing"}
  /\ stopVoiceSession([starts EXCEPT ![k].st = "errored"])
  /\ last' = Event("onerror", k, Again)
  /\ UNCHANGED <<imageVars, toolVars, decoding, nMsgs, now>>

\* callbacks.onclose
onclose(k) ==
  /\ starts[k].st \in {"open", "closing", "errored"}
  /\ stopVoiceSession([starts EXCEPT ![k].st = "closed"])
  /\ last' = Event("onclose", k, Again)
  /\ UNCHANGED <<imageVars, toolVars, decoding, nMsgs, now>>

\* callbacks.onclose when one platform call of stopVoiceSession throws
oncloseFaulty(k, fault) ==
  /\ starts[k].st \in {"open", "closing", "errored"}
  /\ stopVoiceSessionFaulty([starts EXCEPT ![k].st = "closed"], fault)
  /\ last' = Event("oncloseFaulty", k, Again)
  /\ UNCHANGED <<imageVars, toolVars, decoding, nMsgs, now>>

\* ---------------------------------------------------------------- creative actions
\* (variant: textContent is never appended)
promptAlone(fc) == fc.prompt

\* fc.args.prompt + (fc.args.textContent ? `. Text to add: ${fc.args.textContent}` : '')
\* strings are sequences of tokens, the empty sequence the absent or empty string
editPrompt(fc) ==
  fc.prompt \o (IF fc.textContent # <<>> THEN <<". Text to add: ">> \o fc.textContent ELSE <<>>)

Request(kind, data, text, k, id) ==
  [kind |-> kind, data |-> data, text |-> text, live |-> starts[k].snapLive, call |-> id]

\* generateImage up to its await: acc is [status, reqs]; k is the start whose
\* render created the closure
generateImage(acc, k, prompt, id) ==
  [status |-> GENERATING,
   reqs |-> Append(acc.reqs,
                   Request("generate", Null, <<"High quality, aesthetic, ">> \o prompt, k, id))]

\* editImage without the guard of line 80
editImageNoGuard(acc, k, prompt, id) ==
  [status |-> EDITING,
   reqs |-> Append(acc.reqs,
                   Request("edit", starts[k].snapBase64,
                           <<"Modify the image based on this: ">> \o prompt, k, id))]

\* editImage up to its await; imageState is the one of the closure's render
editImage(acc, k, prompt, id) ==
  IF starts[k].snapBase64 = Null
    THEN acc
    ELSE [status |-> EDITING,
          reqs |-> Append(acc.reqs,
                          Request("edit", starts[k].snapBase64,
                                  <<"Modify the image based on this: ">> \o prompt, k, id))]

\* one round of the loop over msg.toolCall.functionCalls: the dispatch
dispatchOne(acc, k, fc) ==
  IF fc.name = "generateImage"
    THEN generateImage(acc, k, fc.prompt, fc.id)
    ELSE IF fc.name = "editImage" \/ fc.name = "posterLayout"
           THEN editImage(acc, k, editPrompt(fc), fc.id)
           ELSE acc

RECURSIVE dispatch(_, _, _)
dispatch(fcs, k, acc) ==
  IF fcs = <<>> THEN acc ELSE dispatch(Tail(fcs), k, dispatchOne(acc, k, Head(fcs)))

\* the acknowledgement without the check of sessionRef.current
sendUnguarded(fc, k) == <<[id |-> fc.id, name |-> fc.name, sess |-> k]>>

\* sessionPromise.then(session => { if (sessionRef.current) session.sendToolResponse(...) })
\* the promise is resolved when a message arrives, so the callback runs as soon as
\* the handler's task ends, and nothing the handler does in between writes sessionRef
sendToolResponse(fc, k) ==
  IF sessionRef # Null THEN <<[id |-> fc.id, name |-> fc.name, sess |-> k]>> ELSE <<>>

RECURSIVE toolResponses(_, _)
toolResponses(fcs, k) ==
  IF fcs = <<>> THEN <<>> ELSE sendToolResponse(Head(fcs), k) \o toolResponses(Tail(fcs), k)

\* the first part with inlineData of response.candidates[0].content.parts, or Null
\* (variant: the loop does not return at the first inline part, the last one wins)
RECURSIVE lastInline(_)
lastInline(parts) ==
  IF parts = <<>> THEN Null
  ELSE IF lastInline(Tail(parts)) # Null THEN lastInline(Tail(parts)) ELSE Head(parts)

RECURSIVE firstInline(_)
firstInline(parts) ==
  IF parts = <<>> THEN Null
  ELSE IF Head(parts) # Null THEN Head(parts) ELSE firstInline(Tail(parts))

\* generateContent settles: the rest of generateImage or editImage
\* (resp.err: the request throws; resp.parts: Null is a text part)
\* (variant: no finally, so only a response that is handled without an exception
\* restores status)
settledNoFinally(r, resp) ==
  /\ r \in pending
  /\ pending' = pending \ {r}
  /\ IF ~resp.err /\ firstInline(resp.parts) # Null
       THEN /\ nItems < MaxItems
            /\ imageState' = SetArtifact(imageState, firstInline(resp.parts))
            /\ nItems' = nItems + 1
       ELSE UNCHANGED <<imageState, nItems>>
  /\ status' = IF resp.err THEN status ELSE IF reqLog[r].live THEN VOICE_ACTIVE ELSE IDLE
  /\ last' = Event("settled", r, [kind |-> reqLog[r].kind, err |-> resp.err,
                                   parts |-> resp.parts])
  /\ UNCHANGED <<isLiveActive, aiResponseText, refVars, starts, decoding, srcLog, reqLog,
                 acks, calls, frames, uploads, nUploads, nMsgs, now, resetSince>>

generateContentSettled(r, resp) ==
  /\ r \in pending
  /\ pending' = pending \ {r}
  /\ IF ~resp.err /\ firstInline(resp.parts) # Null
       THEN /\ nItems < MaxItems
            /\ imageState' = SetArtifact(imageState, firstInline(resp.parts))
            /\ nItems' = nItems + 1
       ELSE UNCHANGED <<imageState, nItems>>
  /\ status' = IF reqLog[r].live THEN VOICE_ACTIVE ELSE IDLE
  /\ last' = Event("settled", r, [kind |-> reqLog[r].kind, err |-> resp.err,
                                   parts |-> resp.parts])
  /\ UNCHANGED <<isLiveActive, aiResponseText, refVars, starts, decoding, srcLog, reqLog,
                 acks, calls, frames, uploads, nUploads, nMsgs, now, resetSince>>

\* the responses the endpoint may give while n artifacts exist
Responses(n) ==
  { [err |-> TRUE, parts |-> <<>>],
    [err |-> FALSE, parts |-> <<Null>>],
    [err |-> FALSE, parts |-> <<Null, n + 1>>],
    [err |-> FALSE, parts |-> <<Null, n + 1, n + 2>>] }

\* handleImageUpload: a file was chosen
handleImageUpload ==
  /\ nUploads < MaxUploads
  /\ nUploads' = nUploads + 1
  /\ uploads' = uploads \cup {[no |-> nUploads + 1, history |-> imageState.history]}
  /\ last' = Event("fileChosen", nUploads + 1, Null)
  /\ UNCHANGED <<status, isLiveActive, aiResponseText, refVars, starts, decoding, srcLog,
                 toolVars, imageState, nItems, nMsgs, now, resetSince>>

\* reader.onload
readerOnload(u) ==
  /\ u \in uploads
  /\ nItems < MaxItems
  /\ uploads' = uploads \ {u}
  /\ nItems' = nItems + 1
  /\ imageState' = [base64 |-> nItems + 1, history |-> PushHistory(nItems + 1, u.history)]
  /\ last' = Event("fileLoaded", u.no, nItems + 1)
  /\ UNCHANGED <<status, isLiveActive, aiResponseText, refVars, starts, decoding, srcLog,
                 toolVars, nUploads, nMsgs, now, resetSince>>

selectFromHistory(i) ==
  /\ i \in DOMAIN imageState.history
  /\ imageState.history[i] # imageState.base64
  /\ imageState' = [imageState EXCEPT !.base64 = imageState.history[i]]
  /\ last' = Event("select", i, Null)
  /\ UNCHANGED <<status, isLiveActive, aiResponseText, refVars, starts, decoding, srcLog,
                 toolVars, uploads, nItems, nUploads, nMsgs, now, resetSince>>

\* ---------------------------------------------------------------- inbound messages
\* decodeAudioData(decode(base64), ctx, 24000, 1).duration, in samples: a trailing
\* odd byte is dropped
decodeAudioData(bytes) == bytes \div SampleWidth

\* the interruption without the try/catch around s.stop(): the first stop that
\* raises ends the handler before the set is cleared and the cursor reset
interruptedNoCatch(a) ==
  IF \E i \in a.set : a.log[i].st # "playing"
    THEN a
    ELSE [cursor |-> 0, set |-> {}, log |-> StopSources(a.log, a.set), rs |-> TRUE,
          played |-> a.played]

\* if (msg.serverContent?.interrupted) {...}: a is [cursor, set, log, rs, played]
interrupted(a) ==
  [cursor |-> 0, set |-> {}, log |-> StopSources(a.log, a.set), rs |-> TRUE,
   played |-> a.played]

\* s.stop() raises on a source of the set that no longer plays
StopRaises(a) == \E i \in a.set : a.log[i].st # "playing"

\* what the handler did: 1 interrupted, +2 a stop raised, +4 a chunk was scheduled
Handled(m, a) ==
  (IF m.interrupted THEN 1 ELSE 0) + (IF m.interrupted /\ StopRaises(a) THEN 2 ELSE 0)
  + (IF a.played THEN 4 ELSE 0)

\* the function calls of a message with the ids the remote side gave them
WithIds(m) ==
  [m EXCEPT !.fcs = [i \in DOMAIN m.fcs |->
     [id |-> Len(calls) + i, name |-> m.fcs[i].name, prompt |-> m.fcs[i].prompt,
      textContent |-> m.fcs[i].textContent]]]

Delivered(m, k) ==
  calls \o [i \in DOMAIN m.fcs |->
              [name |-> m.fcs[i].name, prompt |-> m.fcs[i].prompt,
               textContent |-> m.fcs[i].textContent, sess |-> k, done |-> FALSE,
               ref |-> Null]]

\* onmessage from line 204 to its end; a is what the audio part left
\* ([cursor, set, log, rs, played]), cs the calls delivered so far
messageTail(k, m, a, cs) ==
  LET d == dispatch(m.fcs, k, [status |-> status, reqs |-> reqLog])
      b == IF m.interrupted THEN interrupted(a) ELSE a
      ids == {m.fcs[i].id : i \in DOMAIN m.fcs}
  IN /\ aiResponseText' = IF m.text # Null THEN m.text ELSE aiResponseText
     /\ status' = d.status
     /\ reqLog' = d.reqs
     /\ pending' = pending \cup (Len(reqLog) + 1 .. Len(d.reqs))
     /\ acks' = acks \o toolResponses(m.fcs, k)
     /\ calls' = [i \in DOMAIN cs |->
                    IF i \in ids THEN [cs[i] EXCEPT !.done = TRUE, !.ref = sessionRef]
                    ELSE cs[i]]
     /\ nextStartTimeRef' = b.cursor
     /\ sourcesRef' = b.set
     /\ srcLog' = b.log
     /\ resetSince' = b.rs
     /\ last' = Event("handled", k, Handled(m, a))

\* callbacks.onmessage up to await decodeAudioData, or to its end when the
\* message has no audio part to schedule
onmessage(k, m0) ==
  LET m == WithIds(m0) IN
  /\ starts[k].st = "open"
  /\ nMsgs < MaxMsgs
  /\ nMsgs' = nMsgs + 1
  /\ IF m.audio # Null /\ audioContextRef # Null
       THEN /\ nextStartTimeRef' = Max(nextStartTimeRef, CurrentTime(audioContextRef))
            /\ decoding' = decoding \cup {[no |-> nMsgs + 1, sess |-> k, ctx |-> audioContextRef, msg |-> m]}
            /\ calls' = Delivered(m, k)
            /\ last' = Event("decoding", k, Null)
            /\ UNCHANGED <<status, aiResponseText, sourcesRef, srcLog, reqLog, pending,
                           acks, resetSince>>
       ELSE /\ messageTail(k, m, [cursor |-> nextStartTimeRef, set |-> sourcesRef,
                                  log |-> srcLog, rs |-> resetSince, played |-> FALSE],
                            Delivered(m, k))
            /\ UNCHANGED decoding
  /\ UNCHANGED <<isLiveActive, audioContextRef, sessionRef, streamRef, starts, imageVars,
                 frames, now>>

\* the scheduling without nextStartTimeRef.current += buffer.duration
scheduleNoAdvance(h) ==
  LET src == [start |-> nextStartTimeRef, dur |-> decodeAudioData(h.msg.audio),
              st |-> "playing", ctx |-> h.ctx, afterReset |-> resetSince, msg |-> h.no,
              at |-> CurrentTime(h.ctx)]
  IN [cursor |-> nextStartTimeRef, set |-> sourcesRef \cup {Len(srcLog) + 1},
      log |-> Append(srcLog, src), rs |-> FALSE, played |-> TRUE]

\* lines 196-201: the decoded chunk of handler h is started at the cursor, the
\* cursor advanced and the source registered
schedulePlayback(h) ==
  LET dur == decodeAudioData(h.msg.audio)
      src == [start |-> nextStartTimeRef, dur |-> dur, st |-> "playing",
              ctx |-> h.ctx, afterReset |-> resetSince, msg |-> h.no,
              at |-> CurrentTime(h.ctx)]
  IN [cursor |-> nextStartTimeRef + dur, set |-> sourcesRef \cup {Len(srcLog) + 1},
      log |-> Append(srcLog, src), rs |-> FALSE, played |-> TRUE]

\* decodeAudioData resolves: the rest of the handler
decodeResolved(h) ==
  /\ h \in decoding
  /\ decoding' = decoding \ {h}
  /\ messageTail(h.sess, h.msg, schedulePlayback(h), calls)
  /\ UNCHANGED <<isLiveActive, audioContextRef, sessionRef, streamRef, starts, imageVars,
                 frames, nMsgs, now>>

\* a source plays to its end; no onended handler is installed, so the set keeps it
sourceEnded(i) ==
  /\ i \in DOMAIN srcLog
  /\ srcLog[i].st = "playing"
  /\ CurrentTime(srcLog[i].ctx) >= srcLog[i].start + srcLog[i].dur
  /\ srcLog' = [srcLog EXCEPT ![i].st = "ended"]
  /\ last' = Event("ended", i, Null)
  /\ UNCHANGED <<status, isLiveActive, aiResponseText, refVars, starts, decoding, toolVars,
                 imageVars, nMsgs, now, resetSince>>

\* the device clock advances
tick ==
  /\ now < MaxTime
  /\ now' = now + 1
  /\ last' = Event("tick", Null, Null)
  /\ UNCHANGED <<status, isLiveActive, aiResponseText, refVars, starts, decoding, srcLog,
                 toolVars, imageVars, nMsgs, resetSince>>

\* ---------------------------------------------------------------- message alphabets
Msg(audio, text, fcs, intr) == [audio |-> audio, text |-> text, fcs |-> fcs, interrupted |-> intr]

Call(name, text) == [name |-> name, prompt |-> <<"p">>, textContent |-> text]

\* chunk sizes in bytes
Chunks == {3, 4}

AudioMsgs ==
  {Msg(a, Null, <<>>, i) : a \in Chunks, i \in BOOLEAN}
  \cup {Msg(Null, 1, <<>>, i) : i \in BOOLEAN}

\* args is an untyped object: the declared schema does not keep the remote model
\* from leaving textContent out or from adding it to an editImage call
ToolCalls ==
  {Call("generateImage", <<>>), Call("editImage", <<>>), Call("editImage", <<"t">>),
   Call("posterLayout", <<"t">>), Call("posterLayout", <<>>), Call("other", <<>>)}

ToolMsgs == {Msg(a, Null, <<c>>, FALSE) : a \in {Null, 4}, c \in ToolCalls}

Init ==
  /\ status = IDLE
  /\ imageState = [base64 |-> Null, history |-> <<>>]
  /\ isLiveActive = FALSE
  /\ aiResponseText = Null
  /\ audioContextRef = Null
  /\ nextStartTimeRef = 0
  /\ sourcesRef = {}
  /\ sessionRef = Null
  /\ streamRef = Null
  /\ starts = <<>>
  /\ decoding = {}
  /\ srcLog = <<>>
  /\ reqLog = <<>>
  /\ pending = {}
  /\ acks = <<>>
  /\ calls = <<>>
  /\ frames = {}
  /\ uploads = {}
  /\ nItems = 0
  /\ nMsgs = 0
  /\ nUploads = 0
  /\ now = 0
  /\ resetSince = FALSE
  /\ last = Event("init", Null, Null)

NextVoice ==
  \/ startVoiceSession(MaxStarts)
  \/ \E k \in DOMAIN starts : getUserMediaResolved(k)
  \/ \E k \in DOMAIN starts : getUserMediaRejected(k)
  \/ \E k \in DOMAIN starts : onopen(k)
  \/ \E k \in DOMAIN starts : onerror(k)
  \/ \E k \in DOMAIN starts : onclose(k)
  \/ \E k \in DOMAIN starts : onaudioprocess(k)

\* the life cycle of the sessions under which messages are delivered
NextSession ==
  \/ startVoiceSession(MaxLiveStarts)
  \/ \E k \in DOMAIN starts : getUserMediaResolved(k)
  \/ \E k \in DOMAIN starts : getUserMediaRejected(k)
  \/ \E k \in DOMAIN starts : onopen(k)
  \/ \E k \in DOMAIN starts : onerror(k)
  \/ \E k \in DOMAIN starts : onclose(k)

SpecVoice == Init /\ [][NextVoice]_vars

NextAudio ==
  \/ NextSession
  \/ \E k \in DOMAIN starts, m \in AudioMsgs : onmessage(k, m)
  \/ \E h \in decoding : decodeResolved(h)
  \/ \E i \in DOMAIN srcLog : sourceEnded(i)
  \/ tick

SpecAudio == Init /\ [][NextAudio]_vars

\* the audio path with platform calls that may throw during teardown
NextFault ==
  \/ NextAudio
  \/ \E k \in DOMAIN starts, fault \in Faults : oncloseFaulty(k, fault)

SpecFault == Init /\ [][NextFault]_vars

NextTools ==
  \/ NextSession
  \/ \E k \in DOMAIN starts, m \in ToolMsgs : onmessage(k, m)
  \/ \E h \in decoding : decodeResolved(h)
  \/ \E r \in pending, resp \in Responses(nItems) : generateContentSettled(r, resp)
  \/ handleImageUpload
  \/ \E u \in uploads : readerOnload(u)
  \/ \E i \in DOMAIN imageState.history : selectFromHistory(i)

SpecTools == Init /\ [][NextTools]_vars

\* every request that is in flight returns or fails in the end (a failure is
\* always possible, so the step is enabled as long as a request is pending)
Settle == \E r \in pending, resp \in Responses(nItems) : generateContentSettled(r, resp)

SpecToolsFair == SpecTools /\ WF_vars(Settle)

\* ================================================================ claims

\* the state of the refs and of the voice fields after construction
IdleState ==
  /\ sessionRef = Null
  /\ streamRef = Null
  /\ audioContextRef = Null
  /\ sourcesRef = {}
  /\ nextStartTimeRef = 0
  /\ isLiveActive = FALSE
  /\ status = IDLE
  /\ aiResponseText = Null

\* C2: whenever stopVoiceSession has just run, from the toggle, from onerror or
\* from onclose, and also when the task before it ran it too, the session state is
\* the state after construction: the three refs null, no active source, cursor 0,
\* isLiveActive false, status IDLE, aiResponseText empty.
C2_StopLeavesIdleState == last.op \in StopOps => IdleState

\* C2 witness: stopVoiceSession ran twice in a row, the second time on refs the
\* first had already cleared.
C2_StoppedTwice == last.op \in StopOps /\ last.arg = 1 /\ IdleState

Running(k) == starts[k].ctx = "running"

LiveTrack(k) == starts[k].track

Connected(k) == starts[k].st \in {"connecting", "open"}

\* C3: at no time are there two pairs of open device contexts, two microphone
\* streams with a live track, or two streaming connections that are connecting
\* or open.
C3_AtMostOneSession ==
  /\ Cardinality({k \in DOMAIN starts : Running(k)}) <= 1
  /\ Cardinality({k \in DOMAIN starts : LiveTrack(k)}) <= 1
  /\ Cardinality({k \in DOMAIN starts : Connected(k)}) <= 1

\* C4: the toggle is Idle -> ConnectingVoice on the press, -> VoiceActive on
\* onopen, and after a press that stops the session status is IDLE, no microphone
\* track is live and no device context of any earlier start is open.
C4_ToggleStopReleasesAll ==
  /\ last.op = "toggleStart" => status = VOICE_CONNECTING
  /\ last.op = "onopen" => status = VOICE_ACTIVE
  /\ last.op = "toggleStop" =>
       /\ status = IDLE
       /\ \A k \in DOMAIN starts : ~LiveTrack(k) /\ ~Running(k)

\* C5: once every start has met its error (getUserMedia rejected, or the
\* connection failed or closed), status is IDLE, isLiveActive is false and no
\* device context or microphone track is left open.
C5_ErrorsTearDown ==
  (starts # <<>> /\ \A k \in DOMAIN starts : starts[k].st \in {"denied", "closed"}) =>
    /\ status = IDLE
    /\ ~isLiveActive
    /\ \A k \in DOMAIN starts : ~LiveTrack(k) /\ ~Running(k)

\* C7 as stated: the start times given to source.start never decrease from one
\* chunk to the next, and a chunk scheduled with no interruption or stop since
\* the one before starts no earlier than that one ends.
C7_StartTimesNeverDecrease ==
  \A i \in 2..Len(srcLog) :
    /\ srcLog[i].start >= srcLog[i - 1].start
    /\ ~srcLog[i].afterReset => srcLog[i].start >= srcLog[i - 1].start + srcLog[i - 1].dur

\* C7 amended: a chunk scheduled with no interruption or stop since the chunk
\* scheduled before it starts no earlier than that chunk's start plus its
\* duration; start times may decrease only across such a reset.
C7_NoOverlapBetweenResets ==
  \A i \in 2..Len(srcLog) :
    ~srcLog[i].afterReset => srcLog[i].start >= srcLog[i - 1].start + srcLog[i - 1].dur

\* C7 witness: two chunks scheduled back to back with no reset between them, the
\* second one of a 3-byte payload starting where the first ends.
C7_TwoChunksBackToBack ==
  \E i \in 2..Len(srcLog) :
    /\ ~srcLog[i].afterReset
    /\ srcLog[i].start = srcLog[i - 1].start + srcLog[i - 1].dur
    /\ srcLog[i].dur = 1

\* C8: when the handler of a message whose interrupted flag is set has run to
\* its end, the active-source set is empty and the cursor is 0.
C8_InterruptedClearsAll ==
  (last.op = "handled" /\ last.arg % 2 = 1) => (sourcesRef = {} /\ nextStartTimeRef = 0)

\* C8 witness: the interrupted message also carried a chunk, which was scheduled,
\* and stopping one of the sources raised.
C8_InterruptedWithRaise ==
  last.op = "handled" /\ last.arg = 7 /\ sourcesRef = {} /\ nextStartTimeRef = 0

\* the acknowledgements sent for the function call with id i
AcksOf(i) == {j \in DOMAIN acks : acks[j].id = i}

\* the requests the function call with id i made
RequestsOf(i) == {r \in DOMAIN reqLog : reqLog[r].call = i}

\* C1 as stated: every function call whose handler has run to its end has exactly
\* one acknowledgement, with its id and name, sent on its session.
C1_EveryCallAckedOnce ==
  \A i \in DOMAIN calls :
    calls[i].done =>
      /\ Cardinality(AcksOf(i)) = 1
      /\ \A j \in AcksOf(i) : acks[j].name = calls[i].name /\ acks[j].sess = calls[i].sess

\* C1 amended: a function call has at most one acknowledgement, with its id and
\* name, on its session; it has one, whatever became of the creative action,
\* exactly when sessionRef was set as its handler reached it, and none when
\* stopVoiceSession had cleared sessionRef by then or the handler has not got
\* there yet.
C1_AckedIffSessionHeld ==
  \A i \in DOMAIN calls :
    /\ Cardinality(AcksOf(i)) = (IF calls[i].done /\ calls[i].ref # Null THEN 1 ELSE 0)
    /\ \A j \in AcksOf(i) : acks[j].name = calls[i].name /\ acks[j].sess = calls[i].sess

\* C1 witness: an editImage call that did nothing (no artifact, no request) and
\* has its one acknowledgement.
C1_NoOpCallAcked ==
  \E i \in DOMAIN calls :
    /\ calls[i].done
    /\ calls[i].name = "editImage"
    /\ RequestsOf(i) = {}
    /\ Cardinality(AcksOf(i)) = 1

\* history ordered newest first: artifacts are numbered in the order they are made
NewestFirst(history) ==
  \A i, j \in DOMAIN history : i < j => history[i] > history[j]

EditCallHandled(i) ==
  /\ calls'[i].done
  /\ calls'[i].name \in {"editImage", "posterLayout"}
  /\ i \in DOMAIN calls => ~calls[i].done

\* C9: a step in which editImage is invoked while there is no current artifact
\* leaves status and imageState as they were and issues no request.
C9_EditWithoutArtifactIsNoOp ==
  [][\A i \in DOMAIN calls' :
       (EditCallHandled(i) /\ imageState.base64 = Null) =>
         (status' = status /\ imageState' = imageState /\ reqLog' = reqLog)]_vars

\* C9 witness: an editImage or posterLayout call was handled, there is still no
\* artifact, and the call made no request.
C9_EditCalledWithoutArtifact ==
  \E i \in DOMAIN calls :
    /\ calls[i].done
    /\ calls[i].name \in {"editImage", "posterLayout"}
    /\ imageState.base64 = Null
    /\ imageState.history = <<>>
    /\ RequestsOf(i) = {}

\* C10: a step in which editImage is invoked while a current artifact exists sets
\* status to EDITING and issues exactly one request, an edit carrying the base64
\* of the artifact that is current in that step.
C10_EditSendsCurrentArtifact ==
  [][\A i \in DOMAIN calls' :
       (EditCallHandled(i) /\ imageState.base64 # Null) =>
         /\ status' = EDITING
         /\ Len(reqLog') = Len(reqLog) + 1
         /\ reqLog'[Len(reqLog')].kind = "edit"
         /\ reqLog'[Len(reqLog')].call = i
         /\ reqLog'[Len(reqLog')].data = imageState.base64]_vars

\* C11: when a generate or edit request settles (with an image, without one, or
\* with an error), status becomes VOICE_ACTIVE if a voice session is active at
\* that moment and IDLE otherwise.
C11_SettledRestoresVoiceStatus ==
  last.op = "settled" =>
    status = (IF isLiveActive THEN VOICE_ACTIVE ELSE IDLE)

\* C12: if every request in flight settles in the end, a state with status
\* GENERATING or EDITING is always followed by a state with status IDLE or
\* VOICE_ACTIVE, whatever else (further calls, failures, stops) happens between.
C12_NeverStuckCreating ==
  (status \in {GENERATING, EDITING}) ~> (status \in {IDLE, VOICE_ACTIVE})

\* two requests were in flight together, the session was stopped, and the last of
\* them has now failed
C12_FailedAfterStop ==
  /\ last.op = "settled"
  /\ last.arg.err
  /\ Len(reqLog) = 2
  /\ pending = {}
  /\ sessionRef = Null
  /\ status = IDLE

\* C13: no audio frame is sent on a session after stopVoiceSession has run for
\* that session, also when another session has been started since.
C13_NoFrameAfterStop ==
  \A f \in frames : ~f.stopped

\* the first inline-image part of a response, Null if it has none
FirstImage(parts) ==
  IF \A i \in DOMAIN parts : parts[i] = Null THEN Null
  ELSE parts[CHOOSE i \in DOMAIN parts :
               parts[i] # Null /\ \A j \in 1..(i - 1) : parts[j] = Null]

\* C14: a generate request that settles with a response holding an inline image
\* adds exactly one history entry, at index 0, built from the first inline-image
\* part, and makes it the current artifact; a generate or edit request that
\* fails (an error, or a response without an image) leaves the current artifact
\* and the history unchanged.
C14_GenerateAddsFirstInlineImage ==
  [][last'.op = "settled" =>
       LET img == FirstImage(last'.arg.parts)
           failed == last'.arg.err \/ img = Null
       IN  /\ failed => imageState' = imageState
           /\ (~failed /\ last'.arg.kind = "generate") =>
                /\ imageState'.base64 = img
                /\ Len(imageState'.history) = Min(Len(imageState.history) + 1, HistoryCap)
                /\ imageState'.history[1] = img
                /\ \A i \in 2..Len(imageState'.history) :
                     imageState'.history[i] = imageState.history[i - 1]]_vars

\* a generate request has settled with a response that holds two inline images
\* while the history was not empty
C14_TwoInlineImages ==
  /\ last.op = "settled"
  /\ ~last.arg.err
  /\ last.arg.kind = "generate"
  /\ Len(last.arg.parts) = 3
  /\ Len(imageState.history) >= 2
  /\ imageState.base64 = last.arg.parts[2]

\* C15: the set of active sources holds only sources that have neither finished
\* playing nor been stopped (a source leaves the set when its playback completes).
C15_ActiveSourcesArePlaying ==
  \A i \in sourcesRef : srcLog[i].st = "playing"

\* C16: audio chunks are scheduled in the order their messages were delivered: of
\* two scheduled chunks, the one of the earlier message has the earlier start time.
C16_ScheduledInDeliveryOrder ==
  \A i, j \in DOMAIN srcLog :
    srcLog[i].msg < srcLog[j].msg => srcLog[i].start < srcLog[j].start

\* C17: every chunk is started at the maximum of the cursor and the device time
\* of the moment it is started, so never before the current device time; and the
\* cursor never decreases except when an interruption or stopVoiceSession
\* resets it to 0.
C17_StartNotBeforeDeviceTime ==
  [][/\ \A i \in DOMAIN srcLog' : srcLog'[i].start >= srcLog'[i].at
     /\ \/ nextStartTimeRef' >= nextStartTimeRef
        \/ /\ nextStartTimeRef' = 0
           /\ \/ last'.op \in StopOps
              \/ last'.op = "handled" /\ last'.arg % 2 = 1]_vars

\* C18: whichever single step of stopVoiceSession fails (closing the session,
\* stopping a microphone track, closing a context, stopping a source), the later
\* steps still run: the three refs are cleared, the set of sources is empty, the
\* cursor is 0, the active flag false and status IDLE.
C18_FaultyStopStillCleansUp ==
  last.op = "oncloseFaulty" => IdleState

\* C19: once stopVoiceSession has cleared the session ref, no late callback of
\* the stopped session changes the shared state: a handler resuming from the
\* decode adds no source and does not move the cursor, a late onopen does not
\* set the active flag or the status, a late transcription does not set the AI
\* text; the idle state stays until the toggle is pressed again.
C19_IdleUntilNextStart ==
  [][(IdleState /\ last'.op \in {"handled", "decoding", "onopen"}) => IdleState']_vars

\* the requests a handled call i has issued are exactly one request of this kind
\* and text
IssuedOne(i, kind, text) ==
  \E r \in DOMAIN reqLog :
    /\ RequestsOf(i) = {r}
    /\ reqLog[r].kind = kind
    /\ reqLog[r].text = text

\* the text edit is invoked with by call c when textContent counts
WithTextToAdd(c) ==
  IF c.textContent # <<>> THEN c.prompt \o <<". Text to add: ">> \o c.textContent
  ELSE c.prompt

\* what a handled call i must have issued; alone holds the names whose edit is
\* invoked with the prompt alone whatever the textContent.  edit issues nothing
\* when its closure holds no artifact
Dispatched(i, alone) ==
  LET c == calls[i] IN
    CASE c.name = "generateImage" ->
           IssuedOne(i, "generate", <<"High quality, aesthetic, ">> \o c.prompt)
      [] c.name \in {"editImage", "posterLayout"} ->
           IF starts[c.sess].snapBase64 = Null THEN RequestsOf(i) = {}
           ELSE IssuedOne(i, "edit",
                          <<"Modify the image based on this: ">>
                            \o (IF c.name \in alone THEN c.prompt ELSE WithTextToAdd(c)))
      [] OTHER -> RequestsOf(i) = {}

\* C20 (as stated): generateImage invokes generate with its prompt; editImage
\* invokes edit with its prompt alone; posterLayout invokes edit with
\* "<prompt>. Text to add: <textContent>" when textContent is present and with
\* the prompt alone otherwise; any other name invokes no creative action.
C20_EditImageUsesPromptAlone ==
  \A i \in DOMAIN calls : calls[i].done => Dispatched(i, {"editImage"})

\* C20 (amended): generateImage invokes generate with its prompt; editImage and
\* posterLayout alike invoke edit with "<prompt>. Text to add: <textContent>"
\* when textContent is present and not empty, and with the prompt alone
\* otherwise; any other name invokes no creative action.
C20_DispatchByName ==
  \A i \in DOMAIN calls : calls[i].done => Dispatched(i, {})

\* an editImage call that carried a textContent has issued its edit request
C20_EditImageWithText ==
  \E i \in DOMAIN calls :
    /\ calls[i].done
    /\ calls[i].name = "editImage"
    /\ calls[i].textContent # <<>>
    /\ RequestsOf(i) # {}

\* C21: when the file of a manual upload has been read, its artifact is put in
\* front of the history that is current at that moment, so an entry that a
\* generate or edit added since the file was chosen is still in the history.
C21_UploadPrependsToCurrentHistory ==
  [][last'.op = "fileLoaded" =>
       /\ Len(imageState'.history) = Min(Len(imageState.history) + 1, HistoryCap)
       /\ imageState'.history[1] = imageState'.base64
       /\ \A i \in DOMAIN imageState.history :
            i < HistoryCap => imageState'.history[i + 1] = imageState.history[i]]_vars

\* onclose or onerror of start k is delivered in this step
Delivers(k) ==
  /\ last'.op \in {"onclose", "onerror"}
  /\ starts'[k].st \in {"closed", "errored"}
  /\ starts'[k].st # starts[k].st

\* C22: an onclose or onerror of a session that stopVoiceSession has already
\* run for, delivered after the toggle has started a later session (the context
\* ref is set again), leaves the later session alone: its session, stream and
\* context refs, its devices, the active flag and the status do not change.
C22_LateCloseSparesLaterSession ==
  [][\A k \in DOMAIN starts :
       (Delivers(k) /\ starts[k].stopped /\ audioContextRef \notin {Null, k}) =>
         /\ UNCHANGED <<sessionRef, streamRef, audioContextRef, isLiveActive, status>>
         /\ starts'[audioContextRef] = starts[audioContextRef]]_vars
====
